---- MODULE Spec2Model ----
(***************************************************************************)
(* FreqShift_i (src/cpp/FreqShift.cpp): a REDHAWK component whose          *)
(* serviceFunction takes one BULKIO float block per call, builds a complex *)
(* exponential of the block's length, multiplies the block by it and       *)
(* pushes the product downstream.                                          *)
(*                                                                         *)
(* Numbers.  Samples are integers.  Time is counted in quarter seconds     *)
(* (SRI.xdelta = 1 is 0.25 s) and frequency_shift in whole Hz, so that     *)
(* theta = 2*pi*f*i*xdelta is always a whole number of quarter turns and   *)
(* cos/sin take the exact values 1, 0, -1, 0.  Theta carries the number    *)
(* of quarter turns.  Float rounding is outside the model.                 *)
(*                                                                         *)
(* Threads.  The service thread runs serviceFunction; the loop of lines    *)
(* 184-191 reads the property frequency_shift once per iteration, so each  *)
(* iteration is a step of its own.  The configuration interface            *)
(* (Configure) writes frequency_shift from another thread at any time;     *)
(* serviceFunction takes no lock.                                          *)
(***************************************************************************)
EXTENDS Integers, Sequences, FiniteSets

\* ---------------------------------------------------------------- bounds

\* serviceFunction calls in one behaviour
MaxCalls == 3
\* floats in a dataBuffer of the mixing specification
MaxFloats == 4

XDeltas == {1, 2}
FreqValues == {0, 1}
StreamIDs == {"A", "B"}

VARIABLES
    pc,               \* service thread: "idle" (between calls) or "loop"
    tmp,              \* the dataTransfer held by the running call, or NoBlock
    i,                \* loop index of lines 184-191
    complex_vector,   \* the oscillator sequence being filled
    data,             \* member: the output buffer
    sampleRate,       \* member
    firstTime,        \* member
    frequency_shift,  \* property
    ret,              \* return value of the latest call, "NONE" while it runs
                      \* on a block
    float_out,        \* calls made on the output port, payload left out
    lastPkt,          \* the pushPacket call of the latest block, with its
                      \* payload; NoPkt while that block is being processed
    nCalls,           \* calls of serviceFunction so far
    inLog,            \* T, EOS, streamID of every block obtained, in order
    blk,              \* the block obtained last (kept after delete tmp)
    fCall,            \* frequency_shift when the running/latest call began
    fStable,          \* every loop iteration so far has read fCall
    mixLens           \* <<input length, oscillator length>> at the
                      \* vectormultiply call of the latest block

vars == <<pc, tmp, i, complex_vector, data, sampleRate, firstTime,
          frequency_shift, ret, float_out, lastPkt, nCalls, inLog, blk,
          fCall, fStable, mixLens>>

NoBlock == [none |-> TRUE]
NoPkt == [none |-> TRUE]

\* ------------------------------------------------------- input blocks

\* The payloads are the ramps 1, 2, ..., n: every sample of a block differs
\* from the others, so an output sample names the input sample it was
\* computed from.
Ramp(n) == [k \in 1..n |-> k]

\* bulkio::InFloatPort::dataTransfer
Block(buf, mode, xdelta, sid, eos, chg, t) ==
    [dataBuffer |-> buf,
     SRI |-> [xdelta |-> xdelta, mode |-> mode, streamID |-> sid],
     T |-> t, EOS |-> eos, streamID |-> sid, sriChanged |-> chg]

\* A complex block carries its samples as interleaved floats: an even count.
\* (one sample per block in either mode)
ProtoBuffers(mode) == IF mode = 0 THEN {Ramp(1)} ELSE {Ramp(2)}

MixBuffers(mode) ==
    {Ramp(n) : n \in {m \in 0..MaxFloats : mode = 0 \/ m % 2 = 0}}

\* Blocks of every metadata combination, few payloads.
ProtoBlocks(t) ==
    UNION {{Block(buf, mode, xd, sid, eos, chg, t) :
                buf \in ProtoBuffers(mode), xd \in XDeltas, sid \in StreamIDs,
                eos \in BOOLEAN, chg \in BOOLEAN} : mode \in {0, 1}}

\* Blocks of every payload, one stream.
MixBlocks(t) ==
    UNION {{Block(buf, mode, xd, "A", FALSE, FALSE, t) :
                buf \in MixBuffers(mode), xd \in XDeltas} : mode \in {0, 1}}

\* ------------------------------------------------ the oscillator, 186-190

Cos4(q) == CASE q % 4 = 0 -> 1 [] q % 4 = 1 -> 0 [] q % 4 = 2 -> -1 [] OTHER -> 0
Sin4(q) == CASE q % 4 = 0 -> 0 [] q % 4 = 1 -> 1 [] q % 4 = 2 -> 0 [] OTHER -> -1

\* float theta = 2*M_PI*frequency_shift*i*tmp->SRI.xdelta, in quarter turns
ThetaAccumulated(f, k, xdelta) == f * (k + Len(inLog) - 1) * xdelta
Theta(f, k, xdelta) == f * k * xdelta

\* complex<float> complex_value(cos(theta), sin(theta))
OscElemSwapped(theta) == <<Sin4(theta), Cos4(theta)>>
OscElem(theta) == <<Cos4(theta), Sin4(theta)>>

\* sampleRate = 1/tmp->SRI.xdelta, xdelta in quarter seconds
SampleRateKeepFirst(xdelta) == IF sampleRate = 0 THEN 4 \div xdelta ELSE sampleRate
SampleRateOf(xdelta) == 4 \div xdelta

\* (vector<complex<float> > *)&tmp->dataBuffer: the floats taken in pairs
ComplexViewPerFloat(buf) == [k \in 1..Len(buf) |-> <<buf[k], 0>>]
ComplexView(buf) == [k \in 1..(Len(buf) \div 2) |-> <<buf[2 * k - 1], buf[2 * k]>>]

\* ------------------------------------------------------ the mixer (4.3)

CMul(a, b) == <<a[1] * b[1] - a[2] * b[2], a[1] * b[2] + a[2] * b[1]>>

\* vectormultiply(vector<float>&, vector<complex<float> >&, data)
vectormultiplyReal(input, osc) ==
    [k \in 1..Len(input) |-> CMul(<<input[k], 0>>, osc[k])]

\* vectormultiply(vector<complex<float> >&, vector<complex<float> >&, data)
vectormultiplyComplex(input, osc) ==
    [k \in 1..Len(input) |-> CMul(input[k], osc[k])]

\* ------------------------------------------------------- the output port

\* if (firstTime) { tmp->SRI.mode = 1; float_out->pushSRI(tmp->SRI); }
AnnounceAlways(first, sri) ==
    <<[op |-> "pushSRI", streamID |-> sri.streamID, mode |-> 1, xdelta |-> sri.xdelta]>>
Announce(first, sri) ==
    IF first
    THEN <<[op |-> "pushSRI", streamID |-> sri.streamID, mode |-> 1, xdelta |-> sri.xdelta]>>
    ELSE <<>>

\* float_out->pushPacket(*output, tmp->T, tmp->EOS, tmp->streamID)
\* (n: the number of complex samples of *output)
PacketEventNoEOS(b, out) ==
    [op |-> "pushPacket", T |-> b.T, EOS |-> FALSE, streamID |-> b.streamID,
     n |-> Len(out)]
PacketEvent(b, out) ==
    [op |-> "pushPacket", T |-> b.T, EOS |-> b.EOS, streamID |-> b.streamID,
     n |-> Len(out)]

Meta(b) == [T |-> b.T, EOS |-> b.EOS, streamID |-> b.streamID]

\* ------------------------------------------------------------- the state

Init ==
    /\ pc = "idle"
    /\ tmp = NoBlock
    /\ i = 0
    /\ complex_vector = <<>>
    /\ data = <<>>
    /\ sampleRate = 0
    /\ firstTime = TRUE
    /\ frequency_shift \in FreqValues
    /\ ret = "NONE"
    /\ float_out = <<>>
    /\ lastPkt = NoPkt
    /\ nCalls = 0
    /\ inLog = <<>>
    /\ blk = NoBlock
    /\ fCall = frequency_shift
    /\ fStable = TRUE
    /\ mixLens = <<>>

\* Lines 172-180 with a block: getPacket returns b.
ServiceGet(b) ==
    /\ pc = "idle"
    /\ nCalls < MaxCalls
    /\ nCalls' = nCalls + 1
    /\ tmp' = b
    /\ blk' = b
    /\ inLog' = Append(inLog, Meta(b))
    /\ sampleRate' = SampleRateOf(b.SRI.xdelta)
    /\ complex_vector' = [k \in 1..Len(b.dataBuffer) |-> <<0, 0>>]
    /\ i' = 0
    /\ fCall' = frequency_shift
    /\ fStable' = TRUE
    /\ ret' = "NONE"
    /\ lastPkt' = NoPkt
    /\ mixLens' = <<>>
    /\ pc' = "loop"
    /\ UNCHANGED <<data, firstTime, frequency_shift, float_out>>

\* Lines 172-175 without a block: getPacket returns null, return NOOP.
ServiceNoDataDirty ==
    /\ pc = "idle"
    /\ nCalls < MaxCalls
    /\ nCalls' = nCalls + 1
    /\ ret' = "NOOP"
    /\ firstTime' = FALSE
    /\ UNCHANGED <<pc, tmp, i, complex_vector, data, sampleRate,
                   frequency_shift, float_out, lastPkt, inLog, blk, fCall,
                   fStable, mixLens>>
ServiceNoData ==
    /\ pc = "idle"
    /\ nCalls < MaxCalls
    /\ nCalls' = nCalls + 1
    /\ ret' = "NOOP"
    /\ UNCHANGED <<pc, tmp, i, complex_vector, data, sampleRate, firstTime,
                   frequency_shift, float_out, lastPkt, inLog, blk, fCall,
                   fStable, mixLens>>

\* One iteration of the loop of lines 184-191.
OscStep ==
    /\ pc = "loop"
    /\ i < Len(tmp.dataBuffer)
    /\ complex_vector' =
         [complex_vector EXCEPT
            ![i + 1] = OscElem(Theta(frequency_shift, i, tmp.SRI.xdelta))]
    /\ fStable' = (fStable /\ frequency_shift = fCall)
    /\ i' = i + 1
    /\ UNCHANGED <<pc, tmp, data, sampleRate, firstTime, frequency_shift, ret,
                   float_out, lastPkt, nCalls, inLog, blk, fCall, mixLens>>

\* Lines 196-225: mix, announce on the first time, push, release, NORMAL.
ServiceEmit ==
    /\ pc = "loop"
    /\ i = Len(tmp.dataBuffer)
    /\ LET input == IF tmp.SRI.mode = 1 THEN ComplexView(tmp.dataBuffer)
                    ELSE tmp.dataBuffer
           out == IF tmp.SRI.mode = 1
                  THEN vectormultiplyComplex(input, complex_vector)
                  ELSE vectormultiplyReal(input, complex_vector)
       IN /\ mixLens' = <<Len(input), Len(complex_vector)>>
          /\ data' = out
          /\ float_out' = float_out \o Announce(firstTime, tmp.SRI) \o <<PacketEvent(tmp, out)>>
          /\ lastPkt' = [data |-> out, T |-> tmp.T, EOS |-> tmp.EOS,
                         streamID |-> tmp.streamID]
    /\ firstTime' = FALSE
    /\ tmp' = NoBlock
    /\ ret' = "NORMAL"
    /\ pc' = "idle"
    /\ i' = 0
    /\ complex_vector' = <<>>
    /\ UNCHANGED <<sampleRate, frequency_shift, nCalls, inLog, blk, fCall,
                   fStable>>

\* The configuration interface sets the property frequency_shift.
Configure(f) ==
    /\ f # frequency_shift
    /\ frequency_shift' = f
    /\ UNCHANGED <<pc, tmp, i, complex_vector, data, sampleRate, firstTime,
                   ret, float_out, lastPkt, nCalls, inLog, blk, fCall, fStable,
                   mixLens>>

GetProto == \E b \in ProtoBlocks(nCalls + 1) : ServiceGet(b)
GetMix == \E b \in MixBlocks(nCalls + 1) : ServiceGet(b)
Reconfigure == \E f \in FreqValues : Configure(f)

Next == GetProto \/ ServiceNoData \/ OscStep \/ ServiceEmit \/ Reconfigure
NextMix == GetMix \/ ServiceNoData \/ OscStep \/ ServiceEmit \/ Reconfigure

\* Every stream metadata combination, few payloads.
Spec == Init /\ [][Next]_vars
\* Every payload up to MaxFloats floats, one stream.
SpecMix == Init /\ [][NextMix]_vars

\* ------------------------------------------------------------ the claims

Pkts == SelectSeq(float_out, LAMBDA e : e.op = "pushPacket")
SRIs == SelectSeq(float_out, LAMBDA e : e.op = "pushSRI")

\* The latest call obtained a block and has returned.
Emitted == pc = "idle" /\ ret = "NORMAL"

\* Complex samples of an input block.
NSamples(b) ==
    IF b.SRI.mode = 1 THEN Len(b.dataBuffer) \div 2 ELSE Len(b.dataBuffer)

\* The block as complex samples.
AsComplex(b) ==
    IF b.SRI.mode = 1
    THEN [k \in 1..(Len(b.dataBuffer) \div 2) |->
             <<b.dataBuffer[2 * k - 1], b.dataBuffer[2 * k]>>]
    ELSE [k \in 1..Len(b.dataBuffer) |-> <<b.dataBuffer[k], 0>>]

\* Sample k (from 1) of block b turned by 2*pi*f*(k-1)*xdelta.
Shifted(b, f) ==
    [k \in 1..NSamples(b) |->
        LET q == f * (k - 1) * b.SRI.xdelta
            x == AsComplex(b)[k]
        IN <<x[1] * Cos4(q) - x[2] * Sin4(q), x[1] * Sin4(q) + x[2] * Cos4(q)>>]

\* C1: over any sequence of calls the complex-mode announcement (pushSRI
\* with mode 1) is made exactly once, at the head of the output of the first
\* call that processes a block, whatever the sriChanged flags; firstTime is
\* false from then on and never true again; and no call made after the first
\* announcement announces again unless its block has sriChanged set and a
\* mode other than complex (the code never does).
C1_LogShape ==
    /\ firstTime <=> (float_out = <<>>)
    /\ Len(SRIs) <= 1
    /\ (inLog # <<>> /\ pc = "idle") => Len(SRIs) = 1
    /\ float_out # <<>> =>
          /\ float_out[1].op = "pushSRI"
          /\ float_out[1].mode = 1
          /\ Len(float_out) >= 2
          /\ float_out[2].op = "pushPacket"
          /\ float_out[2].T = inLog[1].T
C1_AnnouncedOnce ==
    /\ []C1_LogShape
    /\ [][~firstTime => ~firstTime']_vars
    /\ [][(~firstTime /\ Len(SRIs') > Len(SRIs)) =>
            (tmp # NoBlock /\ tmp.sriChanged /\ tmp.SRI.mode = 0)]_vars
\* A second block, real and with sriChanged set, has been processed and
\* there is still one announcement.
C1_Witness ==
    /\ Emitted
    /\ Len(Pkts) >= 2
    /\ blk.sriChanged
    /\ blk.SRI.mode = 0
    /\ Len(SRIs) = 1
    /\ ~firstTime

\* C2: every pushPacket is preceded by a pushSRI of the same stream
\* identifier with mode complex, also when blocks of several stream
\* identifiers arrive.
C2_AnnouncedBeforeFirstPacket ==
    \A p \in 1..Len(float_out) :
        float_out[p].op = "pushPacket" =>
            \E q \in 1..(p - 1) :
                /\ float_out[q].op = "pushSRI"
                /\ float_out[q].streamID = float_out[p].streamID
                /\ float_out[q].mode = 1

\* C3: a call in which getPacket returns no block returns NOOP at once and
\* leaves sampleRate, firstTime and the output buffer as they were and calls
\* neither pushSRI nor pushPacket.
C3_NoDataFrame ==
    [][(nCalls' = nCalls + 1 /\ inLog' = inLog) =>
          /\ ret' = "NOOP"
          /\ pc' = "idle"
          /\ UNCHANGED <<sampleRate, firstTime, data, float_out>>]_vars
\* A call without data has returned after a block was processed, and what
\* that block left is still there.
C3_Witness ==
    /\ pc = "idle"
    /\ ret = "NOOP"
    /\ ~firstTime
    /\ sampleRate # 0
    /\ data # <<>>
    /\ Len(float_out) = 2

C6_RealUsesCallTimeF ==
    (Emitted /\ blk.SRI.mode = 0) => data = Shifted(blk, fCall)

C8_PhaseRestarts ==
    (Emitted /\ fStable) => data = Shifted(blk, fCall)
\* A second real block of at least two samples has been processed at 1 Hz
\* after a block of at least two samples: its first sample is not turned,
\* its second is turned by xdelta quarter turns.
C8_Witness ==
    /\ Emitted
    /\ fStable
    /\ fCall = 1
    /\ Len(Pkts) >= 2
    /\ Pkts[Len(Pkts) - 1].n >= 2
    /\ blk.SRI.mode = 0
    /\ blk.SRI.xdelta = 1
    /\ Len(blk.dataBuffer) >= 2
    /\ data[1] = <<1, 0>>
    /\ data[2] = <<0, 2>>

\* C9: at every vectormultiply call the oscillator sequence has as many
\* elements as the input sequence, for real and for complex blocks.
C9_EqualLengths ==
    mixLens # <<>> => mixLens[1] = mixLens[2]

\* C10: sampleRate is 0 until a block is obtained and then 1/xdelta of the
\* block obtained last (xdelta in quarter seconds: sampleRate * xdelta = 4).
C10_SampleRate ==
    IF blk = NoBlock THEN sampleRate = 0
    ELSE sampleRate * blk.SRI.xdelta = 4
\* A block of spacing 0.25 s has been processed after one of spacing 0.5 s.
C10_Witness ==
    /\ Emitted
    /\ Len(Pkts) >= 2
    /\ float_out[1].xdelta = 2
    /\ float_out[2].T = Pkts[Len(Pkts) - 1].T
    /\ blk.SRI.xdelta = 1
    /\ sampleRate = 4

====
